---- MODULE Spec2Model ----
(***************************************************************************)
(* ParameterTraits3: a lock-free SPSC ring buffer carrying SetParam/Stop   *)
(* messages from a producer thread to a ParamWorker thread, which          *)
(* validates each value with ParameterTraits<T>::validate and applies it   *)
(* to the ParameterTable.                                                  *)
(*                                                                         *)
(* Every atomic load or store of head_, tail_ and running_ and every       *)
(* access of buf_ is one step of its thread.  Floats are modelled as       *)
(* records: a finite value in thousandths, or NaN, or an infinity.         *)
(***************************************************************************)
EXTENDS Integers, Sequences, FiniteSets, TLC

VARIABLES
    buf_, head_, tail_,          \* SPSCQueue members
    ppc, pv, phead, pnext, pres, \* producer: position, argument, locals, last return value
    wpc, wtail, wm,              \* consumer: position, local tail, result of try_pop
    running_, table_, mpc,       \* ParamWorker::running_, the ParameterTable, main's position
    nCalls,                      \* number of try_push calls made so far
    pushed, popped, handled,     \* history: items pushed with true, items popped, messages handled
    stopAt,                      \* history: Len(pushed) when Stop was handled, -1 before
    phase, burstN, burstK, burstBase,  \* the sequential push-N / pop-N scenario
    capacity,                    \* the CapacityPow2 template argument of the queue
    call,                        \* a call of a trait or registry function: arguments and results
    prod,                        \* the threads of the two-producer scenario, each inside try_push
    cout                         \* the lines ParameterTable::print has written

qvars == <<buf_, head_, tail_>>
pvars == <<ppc, pv, phead, pnext, pres, nCalls>>
cvars == <<wpc, wtail, wm>>
wvars == <<running_, table_, mpc>>
hvars == <<pushed, popped, handled, stopAt>>
bvars == <<phase, burstN, burstK, burstBase>>
evars == <<capacity, call, prod, cout>>
svars == <<bvars, evars>>
vars == <<buf_, head_, tail_, ppc, pv, phead, pnext, pres, wpc, wtail, wm,
          running_, table_, mpc, nCalls, pushed, popped, handled, stopAt,
          phase, burstN, burstK, burstBase, capacity, call, prod, cout>>

----------------------------------------------------------------------------
(* Bounds of the model *)

\* log2 of the queue's CapacityPow2 template argument
LogCap == 2
\* try_push calls made by the producer of the queue scenarios
MaxPush == 9
\* try_push calls made by the producer of the worker scenario
MaxMsgs == 3

----------------------------------------------------------------------------
(* Floats *)

Fin(m) == [cls |-> "fin", m |-> m]
NaN == [cls |-> "nan", m |-> 0]
PosInf == [cls |-> "inf", m |-> 1]
NegInf == [cls |-> "inf", m |-> -1]

\* FLT_MAX and -FLT_MAX, the finite floats of largest magnitude
FltMax == [cls |-> "max", m |-> 1]
NegFltMax == [cls |-> "max", m |-> -1]

\* where a float that is not NaN lies: -inf, -FLT_MAX, the modelled range, FLT_MAX, +inf
Tier(x) ==
    CASE x.cls = "inf" -> 2 * x.m
      [] x.cls = "max" -> x.m
      [] OTHER -> 0

\* x >= y on floats: false when either side is NaN
FloatGE(x, y) ==
    IF x.cls = "nan" \/ y.cls = "nan" THEN FALSE
    ELSE IF Tier(x) # Tier(y) THEN Tier(x) > Tier(y)
    ELSE IF Tier(x) = 0 THEN x.m >= y.m
    ELSE TRUE

\* x <= y on floats: false when either side is NaN
FloatLE(x, y) ==
    IF x.cls = "nan" \/ y.cls = "nan" THEN FALSE
    ELSE IF Tier(x) # Tier(y) THEN Tier(x) < Tier(y)
    ELSE IF Tier(x) = 0 THEN x.m <= y.m
    ELSE TRUE

----------------------------------------------------------------------------
(* Parameter kinds and traits *)

ParameterID == {"TemperatureSetpoint", "HighTemperatureAlarm", "FanDutyCycle"}

\* a range test written as "not below and not above", which NaN passes
ValidateTemperatureSetpointNegated(x) ==
    /\ ~(FloatLE(x, Fin(0)) /\ x # Fin(0))
    /\ ~(FloatGE(x, Fin(100000)) /\ x # Fin(100000))

ValidateTemperatureSetpoint(x) == FloatGE(x, Fin(0)) /\ FloatLE(x, Fin(100000))

\* an alarm range that leaves out its upper bound
ValidateHighTemperatureAlarmExclusive(x) ==
    FloatGE(x, Fin(0)) /\ FloatLE(x, Fin(150000)) /\ x # Fin(150000)

ValidateHighTemperatureAlarm(x) == FloatGE(x, Fin(0)) /\ FloatLE(x, Fin(150000))

\* a duty cycle test without the upper bound
ValidateFanDutyCycleNoUpper(x) == FloatGE(x, Fin(0))

ValidateFanDutyCycle(x) == FloatGE(x, Fin(0)) /\ FloatLE(x, Fin(100000))

\* param_validate<T>: compile-time dispatch on the tag type
param_validate(k, x) ==
    CASE k = "TemperatureSetpoint" -> ValidateTemperatureSetpoint(x)
      [] k = "HighTemperatureAlarm" -> ValidateHighTemperatureAlarm(x)
      [] k = "FanDutyCycle" -> ValidateFanDutyCycle(x)

\* param_default<T>
param_default(k) ==
    CASE k = "TemperatureSetpoint" -> Fin(37500)
      [] k = "HighTemperatureAlarm" -> Fin(80000)
      [] k = "FanDutyCycle" -> Fin(50000)

----------------------------------------------------------------------------
(* Text: a C string is the sequence of its characters before the NUL *)

Min(a, b) == IF a < b THEN a ELSE b

Take(t, n) == SubSeq(t, 1, Min(n, Len(t)))

DigitChars == <<"0", "1", "2", "3", "4", "5", "6", "7", "8", "9">>

DigitChar(d) == DigitChars[d + 1]

\* the decimal digits of n >= 0, most significant first
RECURSIVE DigitsOf(_)
DigitsOf(n) ==
    IF n < 10 THEN <<DigitChar(n)>>
    ELSE Append(DigitsOf(n \div 10), DigitChar(n % 10))

\* a >= 0 thousandths rounded to hundredths, a tie going to the even neighbour
RoundHundredths(a) ==
    LET q == a \div 10
        r == a % 10
    IN  IF r > 5 \/ (r = 5 /\ q % 2 = 1) THEN q + 1 ELSE q

\* "%.2f" of FLT_MAX
FltMaxText ==
    <<"3","4","0","2","8","2","3","4","6","6","3","8","5","2","8","8","5","9","8",
      "1","1","7","0","4","1","8","3","4","8","4","5","1","6","9","2","5","4","4","0",
      ".","0","0">>

\* the text printf("%.2f") renders for the float x
Format2(x) ==
    LET sign == IF x.m < 0 THEN <<"-">> ELSE <<>>
    IN  CASE x.cls = "nan" -> <<"n", "a", "n">>
          [] x.cls = "inf" -> sign \o <<"i", "n", "f">>
          [] x.cls = "max" -> sign \o FltMaxText
          [] OTHER ->
               LET a == IF x.m < 0 THEN -x.m ELSE x.m
                   h == RoundHundredths(a)
               IN  sign \o DigitsOf(h \div 100)
                        \o <<".", DigitChar((h \div 10) % 10), DigitChar(h % 10)>>

\* a safe_snp that reports the length even when the text was cut
SafeSnpReportsLength(x, out, n) ==
    IF n = 0 THEN [ret |-> 0, out |-> out]
    ELSE [ret |-> Len(Format2(x)), out |-> Take(Format2(x), n - 1)]

\* detail::safe_snp("%.2f", value, out, n): the return value and the buffer afterwards
SafeSnp(x, out, n) ==
    IF n = 0 THEN [ret |-> 0, out |-> out]
    ELSE LET written == Len(Format2(x))
         IN  [ret |-> IF written >= 0 /\ written < n THEN written ELSE 0,
              out |-> Take(Format2(x), n - 1)]

\* ParameterTraits<T>::serialize, the same for the three kinds
param_serialize(k, x, out, n) == SafeSnp(x, out, n)

\* sizeof(buf) in ParameterTable::print and ParamWorker::handle
PrintBufSize == 32

\* (n ? buf : "?")
PrintField(r) == IF r.ret # 0 THEN r.out ELSE <<"?">>

\* ParameterTable::print: the three fields it writes, buf reused from one to the next
PrintLine(tbl) ==
    LET r1 == param_serialize("TemperatureSetpoint", tbl.t, <<>>, PrintBufSize)
        r2 == param_serialize("HighTemperatureAlarm", tbl.a, r1.out, PrintBufSize)
        r3 == param_serialize("FanDutyCycle", tbl.f, r2.out, PrintBufSize)
    IN  <<PrintField(r1), PrintField(r2), PrintField(r3)>>

----------------------------------------------------------------------------
(* Parsing: texts over the digits, '-', '.', ' ' and a letter; NullText is a null pointer *)

NullText == <<"NULL">>

IsDigit(c) == c \in {"0", "1", "2", "3", "4", "5", "6", "7", "8", "9"}

DigitVal(c) == CHOOSE d \in 0 .. 9 : DigitChars[d + 1] = c

\* the index after the run of digits of t that starts at i
RECURSIVE DigitsEnd(_, _)
DigitsEnd(t, i) ==
    IF i <= Len(t) /\ IsDigit(t[i]) THEN DigitsEnd(t, i + 1) ELSE i

\* the number written by the digits t[i .. j - 1]
RECURSIVE DigitsValue(_, _, _)
DigitsValue(t, i, j) ==
    IF j <= i THEN 0 ELSE 10 * DigitsValue(t, i, j - 1) + DigitVal(t[j - 1])

\* the fraction digits t[i .. j - 1] in thousandths (three digits are kept)
FractionValue(t, i, j) ==
    LET d(k) == IF i + k < j THEN DigitVal(t[i + k]) ELSE 0
    IN  100 * d(0) + 10 * d(1) + d(2)

\* whether the characters of w stand in t from position i on
HasWord(t, i, w) ==
    i + Len(w) - 1 <= Len(t) /\ SubSeq(t, i, i + Len(w) - 1) = w

\* a scanner that stops at the decimal point
ScanNumberIntegerOnly(t, i) ==
    LET s == IF i <= Len(t) /\ t[i] = "-" THEN i + 1 ELSE i
        e1 == DigitsEnd(t, s)
        neg == s > i
        mag == 1000 * DigitsValue(t, s, e1)
    IN  [ok |-> e1 > s, val |-> Fin(IF neg THEN -mag ELSE mag), end |-> e1]

\* the longest [-]digits[.digits], [-]inf or [-]nan of t that starts at i
ScanNumber(t, i) ==
    LET s == IF i <= Len(t) /\ t[i] = "-" THEN i + 1 ELSE i
        e1 == DigitsEnd(t, s)
        dot == e1 <= Len(t) /\ t[e1] = "."
        e2 == IF dot THEN DigitsEnd(t, e1 + 1) ELSE e1
        ok == e1 > s \/ (dot /\ e2 > e1 + 1)
        neg == s > i
        mag == 1000 * DigitsValue(t, s, e1)
                 + (IF dot THEN FractionValue(t, e1 + 1, e2) ELSE 0)
    IN  IF HasWord(t, s, <<"i", "n", "f">>)
        THEN [ok |-> TRUE, val |-> IF neg THEN NegInf ELSE PosInf, end |-> s + 3]
        ELSE IF HasWord(t, s, <<"n", "a", "n">>)
        THEN [ok |-> TRUE, val |-> NaN, end |-> s + 3]
        ELSE [ok |-> ok, val |-> Fin(IF neg THEN -mag ELSE mag),
              end |-> IF ok THEN e2 ELSE i]

\* std::from_chars(first, last, out, general): no leading white space
FromChars(t) == ScanNumber(t, 1)

\* the index of the first character of t at or after i that is not a space
RECURSIVE SkipSpaces(_, _)
SkipSpaces(t, i) ==
    IF i <= Len(t) /\ t[i] = " " THEN SkipSpaces(t, i + 1) ELSE i

\* std::strtof(in, &end): leading white space is skipped
Strtof(t) == ScanNumber(t, SkipSpaces(t, 1))

\* detail::parse_float(in, out): whether it succeeded, and out afterwards
parse_float(in, out) ==
    IF in = NullText THEN [ok |-> FALSE, out |-> out]
    ELSE IF FromChars(in).ok THEN [ok |-> TRUE, out |-> FromChars(in).val]
    ELSE IF Strtof(in).ok THEN [ok |-> TRUE, out |-> Strtof(in).val]
    ELSE [ok |-> FALSE, out |-> out]

\* ParameterTraits<T>::parse(in, out): float v{}; parse_float; out.value = v; validate(out)
param_parse(k, in, out) ==
    LET r == parse_float(in, Fin(0))
    IN  IF ~r.ok THEN [ok |-> FALSE, out |-> out]
        ELSE [ok |-> param_validate(k, r.out), out |-> r.out]

----------------------------------------------------------------------------
(* The registry *)

\* the value of the enumerator of kind k in enum class ParameterID : uint16_t
IdOf(k) ==
    CASE k = "TemperatureSetpoint" -> 0
      [] k = "HighTemperatureAlarm" -> 1
      [] k = "FanDutyCycle" -> 2

\* makeHandler<T>(id): the id and the name of the handler of kind k
makeHandler(k) == [id |-> IdOf(k), name |-> k]

registry ==
    <<makeHandler("TemperatureSetpoint"),
      makeHandler("HighTemperatureAlarm"),
      makeHandler("FanDutyCycle")>>

registryCount == Len(registry)

\* a null Handler pointer
nullptr == <<>>

\* &registry[i], and the handler a non-null pointer points to
AddressOf(i) == <<i>>
Deref(p) == registry[p[1]]

\* for (auto const& h : registry) if (h.id == id) return &h; from entry i on
RECURSIVE FindById(_, _)
FindById(id, i) ==
    IF i > registryCount THEN nullptr
    ELSE IF registry[i].id = id THEN AddressOf(i)
    ELSE FindById(id, i + 1)

\* a scan by id that starts at the second entry
FindByIdFromSecond(id) == FindById(id, 2)

find_by_id(id) == FindById(id, 1)

\* for (auto const& h : registry) if (name == h.name) return &h; from entry i on
RECURSIVE FindByName(_, _)
FindByName(name, i) ==
    IF i > registryCount THEN nullptr
    ELSE IF name = registry[i].name THEN AddressOf(i)
    ELSE FindByName(name, i + 1)

find_by_name(name) == FindByName(name, 1)

----------------------------------------------------------------------------
(* Messages *)

SetParam(k, x) == [tag |-> "SetParam", kind |-> k, value |-> x]
Stop == [tag |-> "Stop", kind |-> "none", value |-> Fin(0)]

\* a value-initialised Msg: the variant's first alternative holding 0.0f
DefaultMsg == SetParam("TemperatureSetpoint", Fin(0))

Some(v) == [some |-> TRUE, v |-> v]
nullopt == [some |-> FALSE, v |-> DefaultMsg]

----------------------------------------------------------------------------
(* SPSCQueue *)

RECURSIVE Pow2(_)
Pow2(n) == IF n = 0 THEN 1 ELSE 2 * Pow2(n - 1)

CapacityPow2 == capacity

\* a mask that is the capacity itself
MaskIsCapacity == CapacityPow2

mask_ == CapacityPow2 - 1

RECURSIVE BitAnd(_, _)
BitAnd(a, b) ==
    IF a = 0 \/ b = 0 THEN 0
    ELSE (a % 2) * (b % 2) + 2 * BitAnd(a \div 2, b \div 2)

Slots == 0 .. (CapacityPow2 - 1)

\* (i + 1) & mask_
NextIndex(i) == BitAnd(i + 1, mask_)

\* a full test that misses a full ring whose next slot is slot 0
IsFullMissesWrap(next, tail) == next = tail /\ next # 0

\* a full test that is never true: the producer writes without looking at tail_
IsFullNever(next, tail) == FALSE

\* a full test that also fires one slot early
IsFullEarly(next, tail) == next = tail \/ NextIndex(next) = tail

\* the test of line 27: next == tail_.load(acquire)
IsFull(next, tail) == next = tail

\* an empty test that also fires while one item is stored
IsEmptyEarly(tail, head) == tail = head \/ NextIndex(tail) = head

\* the test of line 36: tail == head_.load(acquire)
IsEmpty(tail, head) == tail = head

\* try_push returns: its argument and locals go out of scope
ProducerLocalsDie == pv' = DefaultMsg /\ phead' = 0 /\ pnext' = 0

\* try_pop returns: its local tail goes out of scope
ConsumerLocalsDie == wtail' = 0

\* try_push is called with v: const size_t head = head_.load(relaxed); next = (head + 1) & mask_
TryPushLoadHead(v) ==
    /\ ppc = "idle"
    /\ ppc' = "L27"
    /\ pv' = v
    /\ phead' = head_
    /\ pnext' = NextIndex(head_)
    /\ nCalls' = nCalls + 1
    /\ UNCHANGED <<pres, qvars, cvars, wvars, hvars>>

\* if (next == tail_.load(acquire)) return false;
TryPushCheckFull ==
    /\ ppc = "L27"
    /\ IF IsFull(pnext, tail_)
       THEN ppc' = "idle" /\ pres' = FALSE /\ ProducerLocalsDie
       ELSE ppc' = "L28" /\ pres' = pres /\ UNCHANGED <<pv, phead, pnext>>
    /\ UNCHANGED <<nCalls, qvars, cvars, wvars, hvars>>

\* buf_[head] = std::move(v);
TryPushWrite ==
    /\ ppc = "L28"
    /\ buf_' = [buf_ EXCEPT ![phead] = pv]
    /\ ppc' = "L29"
    /\ UNCHANGED <<pv, phead, pnext, pres, nCalls, head_, tail_, cvars, wvars, hvars>>

\* head_.store(next, release); return true;
TryPushPublish ==
    /\ ppc = "L29"
    /\ head_' = pnext
    /\ ppc' = "idle"
    /\ pres' = TRUE
    /\ pushed' = Append(pushed, pv)
    /\ ProducerLocalsDie
    /\ UNCHANGED <<nCalls, buf_, tail_, cvars, wvars, popped, handled, stopAt>>

\* try_pop is entered: const size_t tail = tail_.load(relaxed);
TryPopLoadTail ==
    /\ wpc = "L35"
    /\ wtail' = tail_
    /\ wpc' = "L36"
    /\ UNCHANGED <<wm, qvars, pvars, wvars, hvars>>

\* if (tail == head_.load(acquire)) return std::nullopt;
TryPopCheckEmpty ==
    /\ wpc = "L36"
    /\ IF IsEmpty(wtail, head_)
       THEN wpc' = "ret" /\ wm' = nullopt /\ ConsumerLocalsDie
       ELSE wpc' = "L37" /\ wm' = wm /\ wtail' = wtail
    /\ UNCHANGED <<qvars, pvars, wvars, hvars>>

\* a pop that reads the slot after the one tail names
TryPopReadNext ==
    /\ wpc = "L37"
    /\ wm' = Some(buf_[NextIndex(wtail)])
    /\ wpc' = "L38"
    /\ UNCHANGED <<wtail, qvars, pvars, wvars, hvars>>

\* T v = std::move(buf_[tail]);  (a move of a variant of floats is a copy)
TryPopRead ==
    /\ wpc = "L37"
    /\ wm' = Some(buf_[wtail])
    /\ wpc' = "L38"
    /\ UNCHANGED <<wtail, qvars, pvars, wvars, hvars>>

\* a pop that stores the tail it loaded, without the + 1
TryPopPublishNoAdvance ==
    /\ wpc = "L38"
    /\ tail_' = BitAnd(wtail, mask_)
    /\ wpc' = "ret"
    /\ popped' = Append(popped, wm.v)
    /\ ConsumerLocalsDie
    /\ UNCHANGED <<wm, buf_, head_, pvars, wvars, pushed, handled, stopAt>>

\* tail_.store((tail + 1) & mask_, release); return v;
TryPopPublish ==
    /\ wpc = "L38"
    /\ tail_' = NextIndex(wtail)
    /\ wpc' = "ret"
    /\ popped' = Append(popped, wm.v)
    /\ ConsumerLocalsDie
    /\ UNCHANGED <<wm, buf_, head_, pvars, wvars, pushed, handled, stopAt>>

----------------------------------------------------------------------------
(* The queue with one producer thread and one consumer thread *)

Items == {SetParam("FanDutyCycle", Fin(45000)), Stop}

TableInit ==
    [t |-> param_default("TemperatureSetpoint"),
     a |-> param_default("HighTemperatureAlarm"),
     f |-> param_default("FanDutyCycle")]

QueueInit ==
    /\ buf_ = [i \in Slots |-> DefaultMsg]
    /\ head_ = 0
    /\ tail_ = 0
    /\ ppc = "idle" /\ pv = DefaultMsg /\ phead = 0 /\ pnext = 0 /\ pres = FALSE
    /\ nCalls = 0
    /\ wtail = 0 /\ wm = nullopt
    /\ pushed = <<>> /\ popped = <<>> /\ handled = <<>> /\ stopAt = -1
    /\ running_ = FALSE
    /\ table_ = TableInit

NoBurst == phase = "free" /\ burstN = 0 /\ burstK = 0 /\ burstBase = 0

\* no trait call, no second producer, nothing printed
NoCall == [op |-> "none"]
NoProducers == <<>>
NoExtras == call = NoCall /\ prod = NoProducers /\ cout = <<>>

InitQueue ==
    /\ capacity = Pow2(LogCap)
    /\ NoExtras
    /\ QueueInit
    /\ wpc = "L35"
    /\ mpc = "started"
    /\ NoBurst

\* the producer thread calls try_push again
ProducerCall ==
    /\ nCalls < MaxPush
    /\ \E v \in Items : TryPushLoadHead(v)

\* the consumer thread calls try_pop again
ConsumerCall ==
    /\ wpc = "ret"
    /\ wpc' = "L35"
    /\ wm' = nullopt
    /\ UNCHANGED <<wtail, qvars, pvars, wvars, hvars>>

NextQueue ==
    \/ (ProducerCall /\ UNCHANGED svars)
    \/ (TryPushCheckFull /\ UNCHANGED svars)
    \/ (TryPushWrite /\ UNCHANGED svars)
    \/ (TryPushPublish /\ UNCHANGED svars)
    \/ (TryPopLoadTail /\ UNCHANGED svars)
    \/ (TryPopCheckEmpty /\ UNCHANGED svars)
    \/ (TryPopRead /\ UNCHANGED svars)
    \/ (TryPopPublish /\ UNCHANGED svars)
    \/ (ConsumerCall /\ UNCHANGED svars)

SpecQueue == InitQueue /\ [][NextQueue]_vars

----------------------------------------------------------------------------
(* One thread pushing N items and then popping N items, round after round *)

InitFifo ==
    /\ capacity = Pow2(LogCap)
    /\ NoExtras
    /\ QueueInit
    /\ wpc = "ret"
    /\ mpc = "started"
    /\ phase = "choose" /\ burstN = 0 /\ burstK = 0 /\ burstBase = 0

\* a round starts on the empty queue: N is chosen below the capacity
FifoChoose ==
    /\ phase = "choose"
    /\ \E n \in 0 .. (CapacityPow2 - 1) :
          /\ nCalls + n <= MaxPush
          /\ burstN' = n
    /\ burstK' = 0
    /\ burstBase' = Len(pushed)
    /\ phase' = "push"
    /\ UNCHANGED <<qvars, pvars, cvars, wvars, hvars>>

\* the next of the N try_push calls
FifoPushCall ==
    /\ phase = "push"
    /\ burstK < burstN
    /\ \E v \in Items : TryPushLoadHead(v)
    /\ UNCHANGED bvars

\* a step inside try_push; a return counts the call
FifoPushStep ==
    /\ phase = "push"
    /\ TryPushCheckFull \/ TryPushWrite \/ TryPushPublish
    /\ burstK' = IF ppc' = "idle" THEN burstK + 1 ELSE burstK
    /\ UNCHANGED <<phase, burstN, burstBase>>

\* the N pushes are done: the pops start
FifoTurn ==
    /\ phase = "push"
    /\ ppc = "idle"
    /\ burstK = burstN
    /\ phase' = "pop"
    /\ burstK' = 0
    /\ UNCHANGED <<burstN, burstBase, qvars, pvars, cvars, wvars, hvars>>

\* the next of the N try_pop calls, and one more call after them
FifoPopCall ==
    /\ phase = "pop"
    /\ burstK <= burstN
    /\ ConsumerCall
    /\ UNCHANGED bvars

\* a step inside try_pop; a return counts the call
FifoPopStep ==
    /\ phase = "pop"
    /\ TryPopLoadTail \/ TryPopCheckEmpty \/ TryPopRead \/ TryPopPublish
    /\ burstK' = IF wpc' = "ret" THEN burstK + 1 ELSE burstK
    /\ UNCHANGED <<phase, burstN, burstBase>>

\* the round is over
FifoRoundDone ==
    /\ phase = "pop"
    /\ wpc = "ret"
    /\ burstK = burstN + 1
    /\ phase' = "choose"
    /\ wm' = nullopt
    /\ UNCHANGED <<burstN, burstK, burstBase, wpc, wtail, qvars, pvars, wvars, hvars>>

NextFifo ==
    \/ (FifoChoose /\ UNCHANGED evars)
    \/ (FifoPushCall /\ UNCHANGED evars)
    \/ (FifoPushStep /\ UNCHANGED evars)
    \/ (FifoTurn /\ UNCHANGED evars)
    \/ (FifoPopCall /\ UNCHANGED evars)
    \/ (FifoPopStep /\ UNCHANGED evars)
    \/ (FifoRoundDone /\ UNCHANGED evars)

SpecFifo == InitFifo /\ [][NextFifo]_vars

----------------------------------------------------------------------------
(* ParameterTable and ParamWorker *)

\* the slot of kind k
Slot(tbl, k) ==
    CASE k = "TemperatureSetpoint" -> tbl.t
      [] k = "HighTemperatureAlarm" -> tbl.a
      [] k = "FanDutyCycle" -> tbl.f

\* a set that stores every kind in the first slot
TableSetFirstSlot(tbl, k, v) == [tbl EXCEPT !.t = v]

\* ParameterTable::set<Tag>
TableSet(tbl, k, v) ==
    CASE k = "TemperatureSetpoint" -> [tbl EXCEPT !.t = v]
      [] k = "HighTemperatureAlarm" -> [tbl EXCEPT !.a = v]
      [] k = "FanDutyCycle" -> [tbl EXCEPT !.f = v]

\* ParamWorker::start, called by main: running_.store(true); worker_ = std::thread(run)
Start ==
    /\ mpc = "start"
    /\ running_' = TRUE
    /\ wpc' = "loop"
    /\ mpc' = "started"
    /\ UNCHANGED <<table_, wtail, wm, qvars, pvars, hvars>>

\* a run loop that never looks at running_
RunLoopTestIgnoresFlag ==
    /\ wpc = "loop"
    /\ wpc' = "L35"
    /\ UNCHANGED <<wtail, wm, qvars, pvars, wvars, hvars>>

\* while (running_.load())
RunLoopTest ==
    /\ wpc = "loop"
    /\ wpc' = IF running_ THEN "L35" ELSE "exit"
    /\ UNCHANGED <<wtail, wm, qvars, pvars, wvars, hvars>>

\* else std::this_thread::sleep_for(50us)
Sleep ==
    /\ wpc = "ret"
    /\ ~wm.some
    /\ wpc' = "loop"
    /\ wm' = nullopt
    /\ UNCHANGED <<wtail, qvars, pvars, wvars, hvars>>

\* a Stop handler that leaves running_ as it is
HandleStopKeepsRunning ==
    /\ wpc = "ret"
    /\ wm.some
    /\ wm.v.tag = "Stop"
    /\ handled' = Append(handled, wm.v)
    /\ wpc' = "loop"
    /\ wm' = nullopt
    /\ UNCHANGED <<wtail, qvars, pvars, wvars, pushed, popped, stopAt>>

\* handle(const Stop&): running_.store(false)
HandleStop ==
    /\ wpc = "ret"
    /\ wm.some
    /\ wm.v.tag = "Stop"
    /\ running_' = FALSE
    /\ handled' = Append(handled, wm.v)
    /\ stopAt' = Len(pushed)
    /\ wpc' = "loop"
    /\ wm' = nullopt
    /\ UNCHANGED <<table_, mpc, wtail, qvars, pvars, pushed, popped>>

\* a handler that applies the value without validating it
HandleSetParamUnchecked ==
    /\ wpc = "ret"
    /\ wm.some
    /\ wm.v.tag = "SetParam"
    /\ table_' = TableSet(table_, wm.v.kind, wm.v.value)
    /\ handled' = Append(handled, wm.v)
    /\ wpc' = "loop"
    /\ wm' = nullopt
    /\ UNCHANGED <<running_, mpc, wtail, qvars, pvars, pushed, popped, stopAt>>

\* a handler that stops the worker when it rejects a value
HandleSetParamStopsOnReject ==
    /\ wpc = "ret"
    /\ wm.some
    /\ wm.v.tag = "SetParam"
    /\ IF param_validate(wm.v.kind, wm.v.value)
       THEN table_' = TableSet(table_, wm.v.kind, wm.v.value) /\ running_' = running_
       ELSE table_' = table_ /\ running_' = FALSE
    /\ handled' = Append(handled, wm.v)
    /\ wpc' = "loop"
    /\ wm' = nullopt
    /\ UNCHANGED <<mpc, wtail, qvars, pvars, pushed, popped, stopAt>>

\* handle(const SetParam<Tag>&): validate, then table_.set or the [Reject] line
HandleSetParam ==
    /\ wpc = "ret"
    /\ wm.some
    /\ wm.v.tag = "SetParam"
    /\ IF param_validate(wm.v.kind, wm.v.value)
       THEN table_' = TableSet(table_, wm.v.kind, wm.v.value)
       ELSE table_' = table_
    /\ handled' = Append(handled, wm.v)
    /\ wpc' = "loop"
    /\ wm' = nullopt
    /\ UNCHANGED <<running_, mpc, wtail, qvars, pvars, pushed, popped, stopAt>>

----------------------------------------------------------------------------
(* The producer and the worker *)

ParamValues == {Fin(-500), Fin(45000), Fin(120000), NaN}

Msgs == {SetParam(k, x) : k \in ParameterID, x \in ParamValues} \cup {Stop}

Init ==
    /\ capacity = Pow2(LogCap)
    /\ NoExtras
    /\ QueueInit
    /\ wpc = "idle"
    /\ mpc = "start"
    /\ NoBurst

\* the producer thread, created after worker.start(), pushes a message
Produce ==
    /\ mpc = "started"
    /\ nCalls < MaxMsgs
    /\ \E v \in Msgs : TryPushLoadHead(v)

Next ==
    \/ (Start /\ UNCHANGED svars)
    \/ (Produce /\ UNCHANGED svars)
    \/ (TryPushCheckFull /\ UNCHANGED svars)
    \/ (TryPushWrite /\ UNCHANGED svars)
    \/ (TryPushPublish /\ UNCHANGED svars)
    \/ (RunLoopTest /\ UNCHANGED svars)
    \/ (TryPopLoadTail /\ UNCHANGED svars)
    \/ (TryPopCheckEmpty /\ UNCHANGED svars)
    \/ (TryPopRead /\ UNCHANGED svars)
    \/ (TryPopPublish /\ UNCHANGED svars)
    \/ (HandleSetParam /\ UNCHANGED svars)
    \/ (HandleStop /\ UNCHANGED svars)
    \/ (Sleep /\ UNCHANGED svars)

Spec == Init /\ [][Next]_vars

----------------------------------------------------------------------------
(* main's threads to their end: the producer returns, main joins both *)

\* the producer lambda returns after its last try_push
ProducerReturn ==
    /\ mpc # "start"
    /\ ppc = "idle"
    /\ ppc' = "done"
    /\ UNCHANGED <<pv, phead, pnext, pres, nCalls, qvars, cvars, wvars, hvars>>

\* producer.join() returns once the producer thread has ended
ProducerJoin ==
    /\ mpc = "started"
    /\ ppc = "done"
    /\ mpc' = "pjoined"
    /\ UNCHANGED <<running_, table_, qvars, pvars, cvars, hvars>>

\* ParamWorker::join: worker_.join() returns once run() has returned
WorkerJoin ==
    /\ mpc = "pjoined"
    /\ wpc = "exit"
    /\ mpc' = "joined"
    /\ UNCHANGED <<running_, table_, qvars, pvars, cvars, hvars>>

LiveMsgs ==
    {SetParam("FanDutyCycle", Fin(45000)), SetParam("FanDutyCycle", Fin(120000)), Stop}

ProduceLive ==
    /\ mpc = "started"
    /\ nCalls < MaxMsgs
    /\ \E v \in LiveMsgs : TryPushLoadHead(v)

\* the steps of the producer thread inside try_push, and its return
ProducerRuns ==
    (TryPushCheckFull \/ TryPushWrite \/ TryPushPublish \/ ProducerReturn)
        /\ UNCHANGED svars

\* the steps of the worker thread
WorkerRuns ==
    (\/ RunLoopTest \/ TryPopLoadTail \/ TryPopCheckEmpty \/ TryPopRead
     \/ TryPopPublish \/ HandleSetParam \/ HandleStop \/ Sleep)
        /\ UNCHANGED svars

\* the steps of main after worker.start()
MainJoins == (ProducerJoin \/ WorkerJoin) /\ UNCHANGED svars

NextLive ==
    \/ (Start /\ UNCHANGED svars)
    \/ (ProduceLive /\ UNCHANGED svars)
    \/ ProducerRuns
    \/ WorkerRuns
    \/ MainJoins

\* every started thread keeps being scheduled
SpecLive ==
    /\ Init
    /\ [][NextLive]_vars
    /\ WF_vars(ProducerRuns)
    /\ WF_vars(WorkerRuns)
    /\ WF_vars(MainJoins)

----------------------------------------------------------------------------
(* main: the demonstration driver *)

\* SPSCQueue<Msg, 1024> q
DriverCapacity == 1024

\* the five messages of the producer lambda
DriverMsgs ==
    <<SetParam("TemperatureSetpoint", Fin(37500)),
      SetParam("HighTemperatureAlarm", Fin(90000)),
      SetParam("FanDutyCycle", Fin(45000)),
      SetParam("FanDutyCycle", Fin(200000)),
      Stop>>

\* main after params.print(), the construction of q and of worker
InitMain ==
    /\ capacity = DriverCapacity
    /\ call = NoCall /\ prod = NoProducers
    /\ cout = <<PrintLine(TableInit)>>
    /\ QueueInit
    /\ wpc = "idle"
    /\ mpc = "start"
    /\ NoBurst

\* the next q.try_push of the lambda; its return value is ignored
ProduceMain ==
    /\ mpc # "start"
    /\ nCalls < Len(DriverMsgs)
    /\ TryPushLoadHead(DriverMsgs[nCalls + 1])

\* the lambda returns after the fifth try_push
ProducerReturnMain ==
    /\ nCalls = Len(DriverMsgs)
    /\ ProducerReturn

\* params.print() after both joins
PrintFinal ==
    /\ mpc = "joined"
    /\ mpc' = "printed"
    /\ cout' = Append(cout, PrintLine(table_))
    /\ UNCHANGED <<running_, table_, qvars, pvars, cvars, hvars, bvars, capacity, call, prod>>

NextMain ==
    \/ (Start /\ UNCHANGED svars)
    \/ (ProduceMain /\ UNCHANGED svars)
    \/ (TryPushCheckFull /\ UNCHANGED svars)
    \/ (TryPushWrite /\ UNCHANGED svars)
    \/ (TryPushPublish /\ UNCHANGED svars)
    \/ (ProducerReturnMain /\ UNCHANGED svars)
    \/ (RunLoopTest /\ UNCHANGED svars)
    \/ (TryPopLoadTail /\ UNCHANGED svars)
    \/ (TryPopCheckEmpty /\ UNCHANGED svars)
    \/ (TryPopRead /\ UNCHANGED svars)
    \/ (TryPopPublish /\ UNCHANGED svars)
    \/ (HandleSetParam /\ UNCHANGED svars)
    \/ (HandleStop /\ UNCHANGED svars)
    \/ (Sleep /\ UNCHANGED svars)
    \/ (ProducerJoin /\ UNCHANGED svars)
    \/ (WorkerJoin /\ UNCHANGED svars)
    \/ PrintFinal

SpecMain == InitMain /\ [][NextMain]_vars

----------------------------------------------------------------------------
(* The trait and registry functions called on their own, one call per behaviour *)

\* thousandths around 0, the rounding ties and the two upper bounds
FloatGrid ==
    {-500000, -1000, -5, -4, -1, 0, 1, 4, 5, 6, 15, 125, 995, 37500, 45670,
     80000, 99994, 99995, 99996, 99999, 100000, 100001, 120000, 149994,
     149996, 150000, 150001, 200000, 999999}

FloatInputs == {Fin(m) : m \in FloatGrid} \cup {NaN, PosInf, NegInf, FltMax, NegFltMax}

TextInputs ==
    {NullText, <<>>, <<"x">>, <<" ">>, <<"-">>, <<".">>, <<"-", ".">>,
     <<"4", "2">>, <<"4", "2", ".", "5">>, <<"0">>, <<"1", "0", "0">>,
     <<"1", "0", "0", ".", "0", "0", "1">>, <<"1", "5", "0", ".", "0", "0">>,
     <<"2", "0", "0">>, <<"-", "1">>, <<"-", "0", ".", "0", "0">>, <<".", "5">>,
     <<"7", ".">>, <<"1", "2", "x">>, <<" ", "4", "2">>, <<" ", " ", "x">>,
     <<"x", "1">>, <<"1", " ", "2">>, <<"-", "-", "1">>,
     <<"i", "n", "f">>, <<"-", "i", "n", "f">>, <<"n", "a", "n">>, <<"i", "n">>}

\* buffer sizes from none to the 32 bytes the program uses
SizeInputs == {0, 1, 4, 5, 6, 7, 8, PrintBufSize}

\* uint16_t values, in and outside the enumeration
IdInputs == {0, 1, 2, 3, 4, 255, 65535}

NameInputs ==
    ParameterID \cup {"Bogus", "", "fanDutyCycle", "FANDUTYCYCLE", "FanDutyCycl",
                      "FanDutyCycle ", "Temperature", "TemperatureSetpointX"}

CallInputs ==
    [op : {"validate"}, pc : {"call"}, kind : ParameterID, x : FloatInputs]
    \cup [op : {"parse"}, pc : {"call"}, kind : ParameterID, in : TextInputs,
          out : {Fin(37500), Fin(0)}]
    \cup [op : {"serialize"}, pc : {"call"}, kind : ParameterID, x : FloatInputs,
          n : SizeInputs]
    \cup [op : {"roundtrip"}, pc : {"serialize"}, kind : ParameterID, x : FloatInputs]
    \cup [op : {"print"}, pc : {"set"}, kind : ParameterID, x : FloatInputs]
    \cup [op : {"find_by_id"}, pc : {"call"}, id : IdInputs]
    \cup [op : {"find_by_name"}, pc : {"call"}, name : NameInputs]

InitTraits ==
    /\ capacity = Pow2(LogCap)
    /\ call \in CallInputs
    /\ prod = NoProducers /\ cout = <<>>
    /\ QueueInit
    /\ wpc = "idle"
    /\ mpc = "start"
    /\ NoBurst

program == <<qvars, pvars, cvars, wvars, hvars, bvars, capacity, prod>>

\* param_validate<K>(x)
CallValidate ==
    /\ call.op = "validate" /\ call.pc = "call"
    /\ call' = [op |-> "validate", pc |-> "done", kind |-> call.kind, x |-> call.x,
                ret |-> param_validate(call.kind, call.x)]
    /\ UNCHANGED <<program, cout>>

\* param_parse<K>(in, out)
CallParse ==
    /\ call.op = "parse" /\ call.pc = "call"
    /\ LET r == param_parse(call.kind, call.in, call.out)
       IN  call' = [op |-> "parse", pc |-> "done", kind |-> call.kind, in |-> call.in,
                    before |-> call.out, out |-> r.out, ret |-> r.ok]
    /\ UNCHANGED <<program, cout>>

\* param_serialize<K>(x, out, n), out holding no text before
CallSerialize ==
    /\ call.op = "serialize" /\ call.pc = "call"
    /\ LET r == param_serialize(call.kind, call.x, <<>>, call.n)
       IN  call' = [op |-> "serialize", pc |-> "done", kind |-> call.kind, x |-> call.x,
                    n |-> call.n, out |-> r.out, ret |-> r.ret]
    /\ UNCHANGED <<program, cout>>

\* char buf[32]; param_serialize<K>(x, buf, sizeof buf)
RoundTripSerialize ==
    /\ call.op = "roundtrip" /\ call.pc = "serialize"
    /\ LET r == param_serialize(call.kind, call.x, <<>>, PrintBufSize)
       IN  call' = [op |-> "roundtrip", pc |-> IF r.ret # 0 THEN "parse" ELSE "done",
                    kind |-> call.kind, x |-> call.x, n1 |-> r.ret, text1 |-> r.out,
                    ok |-> FALSE, y |-> Fin(0), n2 |-> 0, text2 |-> <<>>]
    /\ UNCHANGED <<program, cout>>

\* K y{}; param_parse<K>(buf, y)
RoundTripParse ==
    /\ call.op = "roundtrip" /\ call.pc = "parse"
    /\ LET r == param_parse(call.kind, call.text1, call.y)
       IN  call' = [call EXCEPT !.pc = IF r.ok THEN "reserialize" ELSE "done",
                                !.ok = r.ok, !.y = r.out]
    /\ UNCHANGED <<program, cout>>

\* char buf2[32]; param_serialize<K>(y, buf2, sizeof buf2)
RoundTripReserialize ==
    /\ call.op = "roundtrip" /\ call.pc = "reserialize"
    /\ LET r == param_serialize(call.kind, call.y, <<>>, PrintBufSize)
       IN  call' = [call EXCEPT !.pc = "done", !.n2 = r.ret, !.text2 = r.out]
    /\ UNCHANGED <<program, cout>>

\* ParameterTable::set<K>(x) on a table of defaults
CallTableSet ==
    /\ call.op = "print" /\ call.pc = "set"
    /\ table_' = TableSet(table_, call.kind, call.x)
    /\ call' = [call EXCEPT !.pc = "print"]
    /\ UNCHANGED <<running_, mpc, qvars, pvars, cvars, hvars, bvars, capacity, prod, cout>>

\* ParameterTable::print()
CallTablePrint ==
    /\ call.op = "print" /\ call.pc = "print"
    /\ cout' = Append(cout, PrintLine(table_))
    /\ call' = [call EXCEPT !.pc = "done"]
    /\ UNCHANGED program

\* find_by_id(id)
CallFindById ==
    /\ call.op = "find_by_id" /\ call.pc = "call"
    /\ call' = [op |-> "find_by_id", pc |-> "done", id |-> call.id,
                ret |-> find_by_id(call.id)]
    /\ UNCHANGED <<program, cout>>

\* find_by_name(name)
CallFindByName ==
    /\ call.op = "find_by_name" /\ call.pc = "call"
    /\ call' = [op |-> "find_by_name", pc |-> "done", name |-> call.name,
                ret |-> find_by_name(call.name)]
    /\ UNCHANGED <<program, cout>>

NextTraits ==
    \/ CallValidate
    \/ CallParse
    \/ CallSerialize
    \/ RoundTripSerialize
    \/ RoundTripParse
    \/ RoundTripReserialize
    \/ CallTableSet
    \/ CallTablePrint
    \/ CallFindById
    \/ CallFindByName

SpecTraits == InitTraits /\ [][NextTraits]_vars

----------------------------------------------------------------------------
(* Two producer threads, each calling try_push once, and the consumer thread *)

Producers == {1, 2}

Other(p) == CHOOSE q \in Producers : q # p

TwoItems ==
    <<SetParam("TemperatureSetpoint", Fin(37500)), SetParam("FanDutyCycle", Fin(45000))>>

\* what a slot can hold, or a read can see, when accesses of a and b to it race
Torn(a, b) ==
    {[tag |-> x.tag, kind |-> y.kind, value |-> z.value] : x, y, z \in {a, b}}

InitTwo ==
    /\ capacity = Pow2(LogCap)
    /\ call = NoCall /\ cout = <<>>
    /\ prod = [p \in Producers |->
                 [pc |-> "idle", v |-> TwoItems[p], head |-> 0, next |-> 0,
                  res |-> FALSE, raced |-> FALSE]]
    /\ QueueInit
    /\ wpc = "L35"
    /\ mpc = "started"
    /\ NoBurst

rest == <<pvars, cvars, wvars, bvars, capacity, call, cout>>

\* thread p enters try_push: const size_t head = head_.load(relaxed); next = (head + 1) & mask_
TryPushLoadHeadBy(p) ==
    /\ prod[p].pc = "idle"
    /\ prod' = [prod EXCEPT ![p].pc = "L27", ![p].head = head_, ![p].next = NextIndex(head_)]
    /\ UNCHANGED <<qvars, hvars, rest>>

\* if (next == tail_.load(acquire)) return false;
TryPushCheckFullBy(p) ==
    /\ prod[p].pc = "L27"
    /\ prod' = IF IsFull(prod[p].next, tail_)
               THEN [prod EXCEPT ![p].pc = "done", ![p].res = FALSE]
               ELSE [prod EXCEPT ![p].pc = "L28"]
    /\ UNCHANGED <<qvars, hvars, rest>>

\* buf_[head] = std::move(v); a write that overlaps the other thread's write of
\* the same slot is a data race, and the slot then holds any mix of the two
TryPushWriteBy(p) ==
    /\ prod[p].pc = "L28"
    /\ LET q == Other(p)
           overlap == prod[q].pc = "L28" /\ prod[q].head = prod[p].head
       IN  /\ \E val \in (IF overlap \/ prod[p].raced
                          THEN Torn(prod[p].v, prod[q].v) ELSE {prod[p].v}) :
                 buf_' = [buf_ EXCEPT ![prod[p].head] = val]
           /\ prod' = [prod EXCEPT ![p].pc = "L29",
                                   ![q].raced = prod[q].raced \/ overlap]
    /\ UNCHANGED <<head_, tail_, hvars, rest>>

\* a publish that advances whatever head_ holds now
TryPushPublishAddsOne(p) ==
    /\ prod[p].pc = "L29"
    /\ head_' = NextIndex(head_)
    /\ prod' = [prod EXCEPT ![p].pc = "done", ![p].res = TRUE]
    /\ pushed' = Append(pushed, prod[p].v)
    /\ UNCHANGED <<buf_, tail_, popped, handled, stopAt, rest>>

\* head_.store(next, release); return true;
TryPushPublishBy(p) ==
    /\ prod[p].pc = "L29"
    /\ head_' = prod[p].next
    /\ prod' = [prod EXCEPT ![p].pc = "done", ![p].res = TRUE]
    /\ pushed' = Append(pushed, prod[p].v)
    /\ UNCHANGED <<buf_, tail_, popped, handled, stopAt, rest>>

\* T v = std::move(buf_[tail]); a read that overlaps a thread's write of the
\* same slot is a data race, and sees any mix of the old and the new content
TryPopReadRacing ==
    /\ wpc = "L37"
    /\ LET writers == {q \in Producers : prod[q].pc = "L28" /\ prod[q].head = wtail}
       IN  IF writers = {}
           THEN wm' = Some(buf_[wtail])
           ELSE \E q \in writers : \E val \in Torn(buf_[wtail], prod[q].v) :
                    wm' = Some(val)
    /\ wpc' = "L38"
    /\ UNCHANGED <<wtail, qvars, pvars, wvars, hvars>>

NextTwo ==
    \/ \E p \in Producers : TryPushLoadHeadBy(p)
    \/ \E p \in Producers : TryPushCheckFullBy(p)
    \/ \E p \in Producers : TryPushWriteBy(p)
    \/ \E p \in Producers : TryPushPublishBy(p)
    \/ (TryPopLoadTail /\ UNCHANGED svars)
    \/ (TryPopCheckEmpty /\ UNCHANGED svars)
    \/ (TryPopReadRacing /\ UNCHANGED svars)
    \/ (TryPopPublish /\ UNCHANGED svars)
    \/ (ConsumerCall /\ UNCHANGED svars)

SpecTwo == InitTwo /\ [][NextTwo]_vars

----------------------------------------------------------------------------
(* Properties of the queue *)

IsPrefix(s, t) == Len(s) <= Len(t) /\ \A i \in 1 .. Len(s) : s[i] = t[i]

\* items whose try_push returned true and whose try_pop has not returned yet
Stored == Len(pushed) - Len(popped)

\* the slots holding those items, counted from the published tail_
LiveSlots == {(tail_ + i) % CapacityPow2 : i \in 0 .. (Stored - 1)}

\* C1: the items returned by successful try_pop calls are always a prefix of
\* the items whose try_push returned true, in the same order.
C1_FifoPrefix == IsPrefix(popped, pushed)

\* the indices have gone round the ring twice and everything pushed was popped
C1_Witness ==
    /\ Len(popped) > 2 * CapacityPow2
    /\ popped = pushed
    /\ \E i, j \in 1 .. Len(popped) : popped[i] # popped[j]

\* C2: the producer's write of buf_[head] and the consumer's read of
\* buf_[tail] are never both pending on one slot; the consumer reads only a
\* slot whose item is written and published, and the producer writes only a
\* slot that holds no published item the consumer has yet to release.
C2_NoSlotRace ==
    /\ ~(ppc = "L28" /\ wpc = "L37" /\ phead = wtail)
    /\ wpc = "L37" =>
          /\ Stored > 0
          /\ wtail \in LiveSlots
          /\ buf_[wtail] = pushed[Len(popped) + 1]
    /\ ppc = "L28" => phead \notin LiveSlots

\* write and read are pending together after the ring has wrapped
C2_Witness ==
    /\ ppc = "L28" /\ wpc = "L37"
    /\ Len(pushed) >= CapacityPow2

\* C3: try_push returns true and enqueues iff the queue is not full when it
\* reads tail_; on full it returns false and leaves head_, tail_ and the
\* buffer as they were.
C3_TryPushOutcome ==
    [][ /\ (ppc = "L27" /\ ppc' # "L27") =>
              IF Stored = CapacityPow2 - 1
              THEN /\ ppc' = "idle" /\ pres' = FALSE
                   /\ UNCHANGED <<head_, tail_, buf_, pushed>>
              ELSE ppc' = "L28"
        /\ (ppc = "L28" /\ ppc' # "L28") => (ppc' = "L29" /\ buf_'[phead] = pv)
        /\ (ppc = "L29" /\ ppc' # "L29") =>
              /\ ppc' = "idle" /\ pres' = TRUE
              /\ pushed' = Append(pushed, pv)
              /\ head_' = (head_ + 1) % CapacityPow2
              /\ buf_[head_] = pv
              /\ UNCHANGED <<tail_, buf_>>
      ]_vars

\* a try_push has just returned false on a full queue
C3_Witness ==
    /\ nCalls > 0 /\ ppc = "idle" /\ pres = FALSE
    /\ Stored = CapacityPow2 - 1

\* C4: try_pop returns the oldest unconsumed item and advances tail_ by one
\* slot iff the queue is not empty when it reads head_; on empty it returns
\* nullopt and leaves head_, tail_ and the buffer as they were.
C4_TryPopOutcome ==
    [][ /\ (wpc = "L36" /\ wpc' # "L36") =>
              IF Stored = 0
              THEN /\ wpc' = "ret" /\ wm' = nullopt
                   /\ UNCHANGED <<head_, tail_, buf_, popped>>
              ELSE wpc' = "L37"
        /\ (wpc = "L37" /\ wpc' # "L37") => wpc' = "L38"
        /\ (wpc = "L38" /\ wpc' # "L38") =>
              /\ wpc' = "ret"
              /\ wm' = Some(pushed[Len(popped) + 1])
              /\ popped' = Append(popped, pushed[Len(popped) + 1])
              /\ tail_' = (tail_ + 1) % CapacityPow2
              /\ UNCHANGED <<head_, buf_>>
      ]_vars

\* a try_pop has just returned nullopt although items were pushed and popped before
C4_Witness ==
    /\ wpc = "ret" /\ ~wm.some
    /\ Len(popped) > CapacityPow2

\* C5: N < CapacityPow2 consecutive try_push calls on an empty queue all
\* return true, the N try_pop calls after them return those N items in push
\* order, and the queue is then empty again.
C5_PushNPopN ==
    /\ (phase = "push" /\ ppc = "idle") =>
          /\ Len(pushed) = burstBase + burstK
          /\ burstK > 0 => pres = TRUE
    /\ (phase = "pop" /\ wpc = "ret" /\ burstK \in 1 .. burstN) =>
          /\ Len(pushed) = burstBase + burstN
          /\ wm = Some(pushed[burstBase + burstK])
          /\ SubSeq(popped, burstBase + 1, Len(popped))
               = SubSeq(pushed, burstBase + 1, burstBase + burstK)
    /\ (phase = "pop" /\ wpc = "ret" /\ burstK >= burstN) =>
          /\ popped = pushed
          /\ head_ = tail_
    /\ (phase = "pop" /\ wpc = "ret" /\ burstK = burstN + 1) => wm = nullopt

\* CapacityPow2 - 1 items, not all alike, went through a ring that had already
\* been used, and the try_pop after them found the queue empty
C5_Witness ==
    /\ phase = "pop" /\ wpc = "ret"
    /\ burstN = CapacityPow2 - 1
    /\ burstK = burstN + 1
    /\ burstBase > 0
    /\ pushed[burstBase + 1] # pushed[burstBase + 2]

----------------------------------------------------------------------------
(* Properties of the worker *)

\* the closed range of kind k, in thousandths
UpperBound(k) == IF k = "HighTemperatureAlarm" THEN 150000 ELSE 100000

InRange(k, x) == x.cls = "fin" /\ x.m >= 0 /\ x.m <= UpperBound(k)

StopHandled == \E i \in 1 .. Len(handled) : handled[i] = Stop

\* the worker is leaving line 128 with the message m popped
Handling(m) == wpc = "ret" /\ wm = Some(m) /\ wpc' # "ret"

\* C6: every slot of the Parameter Table always holds a value inside its
\* kind's range, from the defaults onward.
C6_TableAlwaysValid == \A k \in ParameterID : InRange(k, Slot(table_, k))

\* valid and invalid values, NaN among them, were handled and the table changed
C6_Witness ==
    /\ table_ # TableInit
    /\ \E i \in 1 .. Len(handled) :
          handled[i].tag = "SetParam" /\ handled[i].value = NaN
    /\ \E i \in 1 .. Len(handled) :
          handled[i].tag = "SetParam" /\ handled[i].value.cls = "fin"
          /\ ~InRange(handled[i].kind, handled[i].value)

\* C7: handling SetParam(K, v) with v in K's range sets the K-slot to v,
\* leaves the other two slots alone, and the worker stays Running.
C7_ValidSetParamApplied ==
    [][ \A k \in ParameterID, x \in ParamValues :
          (Handling(SetParam(k, x)) /\ InRange(k, x)) =>
              /\ \A j \in ParameterID :
                    Slot(table_', j) = IF j = k THEN x ELSE Slot(table_, j)
              /\ running_ /\ running_'
              /\ wpc' = "loop"
      ]_vars

\* only the HighTemperatureAlarm slot has been set, to a value valid for it alone
C7_Witness ==
    /\ table_ = [TableInit EXCEPT !.a = Fin(120000)]
    /\ handled = <<SetParam("HighTemperatureAlarm", Fin(120000))>>

\* C8: handling SetParam(K, v) with v outside K's range leaves every slot of
\* the table as it was, and the worker stays Running in its loop.
C8_InvalidSetParamDiscarded ==
    [][ \A k \in ParameterID, x \in ParamValues :
          (Handling(SetParam(k, x)) /\ ~InRange(k, x)) =>
              /\ table_' = table_
              /\ running_ /\ running_'
              /\ wpc' = "loop"
      ]_vars

\* a value was rejected and the worker handled another message after it
C8_Witness ==
    \E i \in 1 .. Len(handled) :
        /\ handled[i].tag = "SetParam"
        /\ ~InRange(handled[i].kind, handled[i].value)
        /\ Len(handled) > i

\* C9: once Stop is handled the worker never enters try_pop again, tail_
\* never moves and the table never changes, whatever is pushed afterwards.
C9_StoppedIsTerminal ==
    [][ StopHandled =>
          /\ wpc \in {"loop", "exit"} /\ wpc' \in {"loop", "exit"}
          /\ ~running_ /\ ~running_'
          /\ tail_' = tail_
          /\ table_' = table_
          /\ popped' = popped /\ handled' = handled
      ]_vars

\* the worker has exited and a message pushed after Stop was handled sits in the queue
C9_Witness ==
    /\ wpc = "exit"
    /\ stopAt >= 0 /\ Len(pushed) > stopAt
    /\ Len(pushed) > Len(popped)

\* C10: when Stop has been handled, every message pushed before that Stop
\* has been popped and handled, in push order.
C10_NothingLeftBeforeStop ==
    StopHandled =>
        \E n \in 1 .. Len(pushed) :
            /\ pushed[n] = Stop
            /\ \A i \in 1 .. (n - 1) : pushed[i] # Stop
            /\ handled = SubSeq(pushed, 1, n)
            /\ popped = handled

\* two SetParam messages and then Stop were pushed and all three were handled
C10_Witness ==
    /\ StopHandled
    /\ Len(handled) = 3
    /\ handled[1] # handled[2]

----------------------------------------------------------------------------
(* Termination *)

StopPushed == \E i \in 1 .. Len(pushed) : pushed[i] = Stop

\* C11: once a Stop has been pushed, a fairly scheduled worker handles a
\* Stop, clears running_, leaves run(), and main's join() returns.
C11_StopLeadsToJoin ==
    StopPushed ~> (StopHandled /\ ~running_ /\ wpc = "exit" /\ mpc = "joined")

\* join() has returned after a Stop that followed other messages
C11_Witness ==
    /\ mpc = "joined"
    /\ StopHandled
    /\ Len(handled) >= 2

----------------------------------------------------------------------------
(* Who writes running_ *)

\* the worker thread handling Stop stores false
FlagWrittenByStop ==
    /\ wpc = "ret" /\ wm = Some(Stop) /\ wpc' = "loop"
    /\ ppc' = ppc /\ mpc' = mpc
    /\ running_ /\ ~running_'

\* the thread calling start() stores true before the worker thread exists
FlagWrittenByStart ==
    /\ mpc = "start" /\ mpc' = "started"
    /\ wpc = "idle" /\ ppc = "idle" /\ ppc' = ppc
    /\ ~running_ /\ running_'

\* C12 as claimed: running_ is written only by the worker thread, and only by
\* its transition to Stopped.
C12_OnlyStopWritesFlag == [][running_' # running_ => FlagWrittenByStop]_vars

\* C12 as amended: running_ is written once by the thread calling start(),
\* before the worker thread exists, and after that only by the worker
\* thread's transition to Stopped; no producer step writes it.
C12_StartThenOnlyStopWritesFlag ==
    [][running_' # running_ => (FlagWrittenByStart \/ FlagWrittenByStop)]_vars

\* the flag has been set by start() and cleared by the worker, with rejected values in between
C12_Witness ==
    /\ mpc = "started" /\ ~running_ /\ stopAt >= 0
    /\ Len(handled) >= 2
    /\ ~InRange(handled[1].kind, handled[1].value)

----------------------------------------------------------------------------
(* The demonstration driver *)

DriverFinalTable == [t |-> Fin(37500), a |-> Fin(90000), f |-> Fin(45000)]

\* C13: in the driver every try_push returns true, the table printed after
\* both joins is 37.50 / 90.00 / 45.00, and 200.0 is never in the table.
C13_DriverOutcome ==
    /\ (ppc \in {"idle", "done"}) => (Len(pushed) = nCalls /\ (nCalls > 0 => pres = TRUE))
    /\ ppc = "done" => pushed = DriverMsgs
    /\ mpc \in {"joined", "printed"} => table_ = DriverFinalTable
    /\ mpc = "printed" =>
          cout[2] = << <<"3", "7", ".", "5", "0">>,
                       <<"9", "0", ".", "0", "0">>,
                       <<"4", "5", ".", "0", "0">> >>
    /\ \A k \in ParameterID : Slot(table_, k) # Fin(200000)

\* the final print has run after all five messages were handled
C13_Witness ==
    /\ mpc = "printed"
    /\ Len(cout) = 2
    /\ handled = DriverMsgs

----------------------------------------------------------------------------
(* Properties of the trait and registry functions *)

\* C14: validate(v) of kind K is true exactly when v lies in K's closed range,
\* so it is false below 0, above the upper bound, for NaN and for both
\* infinities; the call changes neither its argument nor any other state.
C14_ValidateIsRangePredicate ==
    [][(call.op = "validate" /\ call.pc = "call") =>
          /\ call'.pc = "done"
          /\ call'.ret = InRange(call.kind, call.x)
          /\ call'.kind = call.kind /\ call'.x = call.x
          /\ UNCHANGED <<program, cout>>]_vars

\* validate has returned true for the inclusive upper bound of the alarm range
C14_Witness ==
    /\ call.op = "validate" /\ call.pc = "done"
    /\ call.kind = "HighTemperatureAlarm" /\ call.x = Fin(150000)
    /\ call.ret = TRUE

\* C15: whenever parse reports failure, the caller's output value is exactly
\* what it was before the call.
C15_FailedParseLeavesOutput ==
    (call.op = "parse" /\ call.pc = "done" /\ ~call.ret) => call.out = call.before

\* C16: the registry holds one handler per kind, with distinct ids and names;
\* find_by_id and find_by_name return the handler asked for, nullptr for an id
\* outside the enumeration or a text that is no kind's exact name, and agree.
C16_RegistryLookups ==
    /\ registryCount = Cardinality(ParameterID)
    /\ \A i, j \in 1 .. registryCount :
          i # j => registry[i].id # registry[j].id /\ registry[i].name # registry[j].name
    /\ \A k \in ParameterID :
          LET h == find_by_id(IdOf(k))
          IN  /\ h # nullptr
              /\ Deref(h).id = IdOf(k) /\ Deref(h).name = k
              /\ find_by_name(Deref(h).name) = h
    /\ (call.op = "find_by_id" /\ call.pc = "done") =>
          IF \E k \in ParameterID : IdOf(k) = call.id
          THEN call.ret # nullptr /\ Deref(call.ret).id = call.id
          ELSE call.ret = nullptr
    /\ (call.op = "find_by_name" /\ call.pc = "done") =>
          IF call.name \in ParameterID
          THEN call.ret # nullptr /\ Deref(call.ret).name = call.name
          ELSE call.ret = nullptr

\* find_by_name has returned nullptr for a name that differs from a kind's only in case
C16_Witness ==
    /\ call.op = "find_by_name" /\ call.pc = "done"
    /\ call.name = "fanDutyCycle" /\ call.ret = nullptr

\* C17: for v inside K's range, serialize into 32 bytes succeeds, parse of the
\* text succeeds with a value inside the range, and serializing that value
\* gives the same text again.
C17_RoundTripStable ==
    (call.op = "roundtrip" /\ InRange(call.kind, call.x)) =>
        /\ call.pc # "serialize" => (call.n1 > 0 /\ call.n1 = Len(call.text1))
        /\ call.pc = "reserialize" => (call.ok /\ InRange(call.kind, call.y))
        /\ call.pc = "done" =>
              /\ call.ok /\ InRange(call.kind, call.y)
              /\ call.n2 = call.n1 /\ call.text2 = call.text1

\* 99.996 was rendered as "100.00", parsed back and rendered again
C17_Witness ==
    /\ call.op = "roundtrip" /\ call.pc = "done"
    /\ call.kind = "TemperatureSetpoint" /\ call.x = Fin(99996)
    /\ call.text2 = <<"1", "0", "0", ".", "0", "0">>

\* C18: serialize returns the length of the text when text and terminator fit
\* in n bytes and 0 when they do not (n = 0 included); print shows "?" for a
\* slot exactly when its serialize returned 0, the whole text otherwise, and
\* always writes its three fields.
C18_SerializeFailureIsPlaceholder ==
    /\ (call.op = "serialize" /\ call.pc = "done") =>
          IF Len(Format2(call.x)) + 1 <= call.n
          THEN call.ret = Len(Format2(call.x)) /\ call.out = Format2(call.x)
          ELSE call.ret = 0
    /\ (call.op = "print" /\ call.pc = "done") =>
          /\ Len(cout) = 1 /\ Len(cout[1]) = registryCount
          /\ \A i \in 1 .. registryCount :
                LET x == Slot(table_, registry[i].name)
                    n == param_serialize(registry[i].name, x, <<>>, PrintBufSize).ret
                IN  /\ cout[1][i] = <<"?">> <=> n = 0
                    /\ n # 0 => cout[1][i] = Format2(x)

\* print has shown "?" for a slot too long for 32 bytes and the text of another
C18_Witness ==
    /\ call.op = "print" /\ call.pc = "done"
    /\ cout[1][1] = <<"?">> /\ cout[1][2] = <<"8", "0", ".", "0", "0">>

----------------------------------------------------------------------------
(* The ring keeps one slot unused; two producers *)

\* C19: with one producer and one consumer head_ and tail_ stay inside
\* 0 .. CapacityPow2 - 1, the number of items pushed and not yet popped is
\* (head_ - tail_) mod CapacityPow2 and never exceeds CapacityPow2 - 1, and a
\* try_push that finds CapacityPow2 - 1 items stored returns false without
\* moving head_.
C19_OneSlotUnused ==
    /\ [](/\ head_ \in 0 .. (CapacityPow2 - 1)
          /\ tail_ \in 0 .. (CapacityPow2 - 1)
          /\ Stored = (head_ - tail_ + CapacityPow2) % CapacityPow2
          /\ Stored <= CapacityPow2 - 1
          /\ ppc \in {"L28", "L29"} => Stored < CapacityPow2 - 1)
    /\ [][(ppc = "L27" /\ ppc' # "L27" /\ Stored = CapacityPow2 - 1) =>
             (pres' = FALSE /\ head_' = head_ /\ pushed' = pushed)]_vars

\* the ring is full across the wrap and the last try_push was refused
C19_Witness ==
    /\ Stored = CapacityPow2 - 1 /\ head_ < tail_
    /\ nCalls > 0 /\ ppc = "idle" /\ pres = FALSE

\* both try_push calls have returned true after writing the same slot
BothWroteOneSlot ==
    /\ \A p \in Producers : prod[p].pc = "done" /\ prod[p].res = TRUE
    /\ \A p, q \in Producers : prod[p].head = prod[q].head

\* C20: with two threads in try_push at once, whenever both calls returned
\* true after writing the same slot, head_ is only one past that slot and the
\* consumer has been given one item when the queue is empty and none before,
\* so it is never given two: one of the two items is lost.
C20_TwoProducersLoseAnItem ==
    BothWroteOneSlot =>
        /\ Len(pushed) = Cardinality(Producers)
        /\ \A p \in Producers : head_ = NextIndex(prod[p].head)
        /\ Len(popped) = (IF tail_ = head_ THEN 1 ELSE 0)

\* both calls returned true, the consumer got one item and then found the queue empty
C20_Witness ==
    /\ BothWroteOneSlot
    /\ Len(pushed) = Cardinality(Producers) /\ Len(popped) = 1
    /\ wpc = "ret" /\ wm = nullopt /\ tail_ = head_

====
